---- MODULE Spec2Model ----
(***************************************************************************)
(* A model of the retrieval core of moligarch/ai-agents-workshop           *)
(* (src/04-rag/rag_engine): the windower make_chunks of chunking.py, the   *)
(* cosine top-K search of retriever.py and the pickle persistence of       *)
(* indexer.py.                                                             *)
(*                                                                         *)
(* Text is modelled by its whitespace split: a sentence or a chunk is the  *)
(* sequence of its words.  In the windower every input word is named by    *)
(* its position in the input (1, 2, 3, ...), so a dropped, duplicated or   *)
(* reordered word is visible in the output.                                *)
(***************************************************************************)
EXTENDS Integers, Sequences, FiniteSets, TLC

(***************************************************************************)
(* Bounds of the windower's inputs.                                        *)
(***************************************************************************)
MaxSents == 4
MaxSentLen == 3
MaxSize == 3

(***************************************************************************)
(* Bounds of the retriever's and the persistence's inputs: the chunks of   *)
(* an index that is searched, the chunks of an index that is saved.        *)
(***************************************************************************)
MaxChunks == 3
MaxSavedChunks == 2

(***************************************************************************)
(* Bounds of build_index's inputs: the sentences of the document, the      *)
(* chunk size.                                                             *)
(***************************************************************************)
MaxDocSents == 3
MaxDocSize == 2

(***************************************************************************)
(* Bound of split_sentences' input: the characters of the text.            *)
(***************************************************************************)
MaxTextLen == 5

(***************************************************************************)
(* Bounds of the thermostat: temperatures are whole degrees from 0 to      *)
(* MaxTemp, the deadband a width from 0 to MaxDeadband degrees.            *)
(***************************************************************************)
MaxTemp == 9
MaxDeadband == 2

(***************************************************************************)
(* Bound of the ReAct loop: config.max_steps runs from -1 to MaxSteps.     *)
(***************************************************************************)
MaxSteps == 3

VARIABLES
  \* make_chunks(sentences, chunk_size, overlap): arguments, locals, position
  sentences, chunk_size, overlap, chunks, window, count, pos, pc,
  \* the index dict the caller holds, the index file, the last call and its
  \* outcome, the environment (numpy build, installed packages)
  index, disk, ret, env,
  \* history: the index last passed to save_index, and whether a save has
  \* replaced an older, different file
  saved, overwrote,
  \* build_index(text, lang=, emb_name=, chunk_size=, overlap=): arguments (the
  \* two sizes are make_chunks' own), the returned dict, position
  text_arg, lang_arg, emb_name_arg, built, bpc,
  \* split_sentences(text, lang): arguments, the returned list, position
  s_text, s_lang, split_ret, spc,
  \* ThermostatAgent: cfg, _last_action; the last call of decide: its percept,
  \* _last_action as it found it, what it returned or raised
  cfg, last_action, percept, prev_action, decided,
  \* ReActAgent.run: config.max_steps, the outputs the LLM has given, the
  \* short-term memory, the calls of call_tool, the scratchpad each LLM call
  \* was given, how run ended
  max_steps, outs, short_mem, tool_calls, scratch_seen, run_ret,
  \* call_tool on the registry of one LongTermMemory: the memory's _data, the
  \* last text written under every key (history), the last call and its outcome
  ltm, written, tool_ret,
  \* tools_tsetmc_lc.py: BRSAPI_KEY, the arguments of _get_tsetmc_quote, where
  \* the call stands, what _resolve_l18 returned, the requests sent and the result
  brsapi_key, symbol_arg, price_field, qpc, l18, resolve_err, requests_log, quote_ret

chunkVars == <<sentences, chunk_size, overlap, chunks, window, count, pos, pc>>

indexVars == <<index, disk, ret, env, saved, overwrote>>

buildVars == <<text_arg, lang_arg, emb_name_arg, built, bpc>>

splitVars == <<s_text, s_lang, split_ret, spc>>

thermoVars == <<cfg, last_action, percept, prev_action, decided>>

agentVars == <<max_steps, outs, short_mem, tool_calls, scratch_seen, run_ret>>

toolVars == <<ltm, written, tool_ret>>

quoteVars == <<brsapi_key, symbol_arg, price_field, qpc, l18, resolve_err, requests_log, quote_ret>>

vars == <<chunkVars, indexVars, buildVars, splitVars, thermoVars, agentVars, toolVars, quoteVars>>

\* What a component's functions never touch.
outsideChunk == <<indexVars, buildVars, splitVars, thermoVars, agentVars, toolVars, quoteVars>>

outsideIndex == <<chunkVars, buildVars, splitVars, thermoVars, agentVars, toolVars, quoteVars>>

outsideBuild == <<splitVars, thermoVars, agentVars, toolVars, quoteVars>>

outsideSplit == <<chunkVars, indexVars, buildVars, thermoVars, agentVars, toolVars, quoteVars>>

outsideThermo == <<chunkVars, indexVars, buildVars, splitVars, agentVars, toolVars, quoteVars>>

outsideAgent == <<chunkVars, indexVars, buildVars, splitVars, thermoVars, toolVars, quoteVars>>

outsideTool == <<chunkVars, indexVars, buildVars, splitVars, thermoVars, agentVars, quoteVars>>

outsideQuote == <<chunkVars, indexVars, buildVars, splitVars, thermoVars, agentVars, toolVars>>

(***************************************************************************)
(* Generic helpers.                                                        *)
(***************************************************************************)
Min(a, b) == IF a <= b THEN a ELSE b

Max(a, b) == IF a >= b THEN a ELSE b

\* Python's None, and a value that is there.
None == <<>>

Some(x) == <<x>>

RECURSIVE Flatten(_)
Flatten(ss) == IF ss = <<>> THEN <<>> ELSE Head(ss) \o Flatten(Tail(ss))

(***************************************************************************)
(* chunking.py: make_chunks                                                *)
(***************************************************************************)

\* _words(s) = len(s.split()): a sentence is kept as its split.
Words(s) == Len(s)

\* " ".join(window).strip(), seen through split(): the words of the window's
\* sentences, in order.
Join(w) == Flatten(w)

\* Python's tail[-n:]: the last n elements, all of them when n >= len(tail)
\* and (since -0 is 0) also when n = 0.
PyLast(t, n) ==
  IF n = 0 \/ n >= Len(t) THEN t ELSE SubSeq(t, Len(t) - n + 1, Len(t))

\* Python's words[i : i + n] with 0-based i.
PySlice(t, i, n) == SubSeq(t, i + 1, Min(i + n, Len(t)))

\* The argument checks that open make_chunks.
ValidateMut(cs, ov) ==
  IF cs <= 0 THEN "ValueError: chunk_size must be > 0"
  ELSE IF ov < 0 THEN "ValueError: overlap must be >= 0"
  ELSE IF ov >= cs THEN "ValueError: overlap must be < chunk_size"
  ELSE "ok"

\* Without the check of overlap.
ValidateSizeOnly(cs, ov) ==
  IF cs <= 0 THEN "ValueError: chunk_size must be > 0" ELSE "ok"

Validate(cs, ov) ==
  IF cs <= 0 THEN "ValueError: chunk_size must be > 0"
  ELSE IF ov < 0 THEN "ValueError: overlap must be >= 0"
  ELSE "ok"

\* `if count + w <= chunk_size`
FitsMut(c, w, cs) == c <= cs

Fits(c, w, cs) == c + w <= cs

\* `if overlap > 0 and chunks`
SeedWantedMut(ov, cks) == ov >= 0 /\ cks # <<>>

SeedWanted(ov, cks) == ov > 0 /\ cks # <<>>

\* The window that opens the next chunk: the last `overlap` words of the last
\* chunk as one synthetic sentence, or nothing.
SeedWindow(ov, cks) ==
  IF SeedWanted(ov, cks)
  THEN LET tail == cks[Len(cks)]
       IN IF tail # <<>> THEN <<PyLast(tail, ov)>> ELSE <<>>
  ELSE <<>>

\* for i in range(0, len(words), chunk_size): seg = words[i : i + chunk_size];
\* if seg: chunks.append(seg)
RECURSIVE SplitFrom(_, _, _)
SplitFrom(words, i, cs) ==
  IF i >= Len(words) THEN <<>>
  ELSE LET seg == PySlice(words, i, cs)
       IN (IF seg # <<>> THEN <<seg>> ELSE <<>>) \o SplitFrom(words, i + cs, cs)

HardSplitMut(words, cs) == <<PySlice(words, 0, cs)>>

HardSplit(words, cs) == SplitFrom(words, 0, cs)

\* The inputs: every list of at most MaxSents sentences of at most MaxSentLen
\* words (a sentence of no word is the empty or blank string).
LenLists == UNION {[1..n -> 0..MaxSentLen] : n \in 0..MaxSents}

RECURSIVE Offset(_, _)
Offset(lens, i) == IF i <= 1 THEN 0 ELSE lens[i - 1] + Offset(lens, i - 1)

Numbered(lens) ==
  [i \in 1..Len(lens) |-> [j \in 1..lens[i] |-> Offset(lens, i) + j]]

ChunkInit ==
  /\ \E lens \in LenLists : sentences = Numbered(lens)
  /\ chunk_size \in 0..MaxSize
  /\ overlap \in (-1)..MaxSize
  /\ chunks = <<>>
  /\ window = <<>>
  /\ count = 0
  /\ pos = 1
  /\ pc = "start"

\* Entry: the two checks, then the locals.
MakeChunksCall ==
  /\ pc = "start"
  /\ pc' = IF Validate(chunk_size, overlap) = "ok" THEN "loop"
           ELSE Validate(chunk_size, overlap)
  /\ UNCHANGED <<sentences, chunk_size, overlap, chunks, window, count, pos>>
  /\ UNCHANGED outsideChunk

\* One iteration of `for s in sentences`.
LoopStep ==
  /\ pc = "loop"
  /\ pos <= Len(sentences)
  /\ LET s == sentences[pos]
         w == Words(s)
     IN IF Fits(count, w, chunk_size)
        THEN /\ window' = Append(window, s)
             /\ count' = count + w
             /\ chunks' = chunks
        ELSE LET flushed == IF window # <<>> THEN Append(chunks, Join(window))
                            ELSE chunks
                 seed == SeedWindow(overlap, flushed)
                 seedCount == IF seed # <<>> THEN Words(seed[1]) ELSE 0
             IN IF w > chunk_size
                THEN /\ chunks' = flushed \o HardSplit(s, chunk_size)
                     /\ window' = <<>>
                     /\ count' = 0
                ELSE /\ chunks' = flushed
                     /\ window' = Append(seed, s)
                     /\ count' = seedCount + w
  /\ pos' = pos + 1
  /\ UNCHANGED <<sentences, chunk_size, overlap, pc>>
  /\ UNCHANGED outsideChunk

\* After the loop: the last flush and the return.
MakeChunksReturn ==
  /\ pc = "loop"
  /\ pos > Len(sentences)
  /\ chunks' = IF window # <<>> THEN Append(chunks, Join(window)) ELSE chunks
  /\ pc' = "done"
  /\ UNCHANGED <<sentences, chunk_size, overlap, window, count, pos>>
  /\ UNCHANGED outsideChunk

ChunkNext == MakeChunksCall \/ LoopStep \/ MakeChunksReturn

\* make_chunks is not running.
ChunkIdle ==
  /\ sentences = <<>>
  /\ chunk_size = 1
  /\ overlap = 0
  /\ chunks = <<>>
  /\ window = <<>>
  /\ count = 0
  /\ pos = 1
  /\ pc = "idle"

(***************************************************************************)
(* chunking.py: split_sentences.  Here a text is the sequence of its       *)
(* characters.  hazm is not installed: its import fails and _HAZM_OK is    *)
(* False.                                                                  *)
(***************************************************************************)
Chars == {"a", ".", "!", " ", "\n"}

Texts == UNION {[1..n -> Chars] : n \in 0..MaxTextLen}

SplitLangs == {"en", "", "fa", "FA-IR"}

HAZM_OK == FALSE

\* What \s matches and str.strip() strips.
IsSpace(c) == c \in {" ", "\n"}

\* (lang or "").lower().startswith("fa")
LangIsFa(l) == l \in {"fa", "FA-IR"}

RECURSIVE LStrip(_)
LStrip(t) == IF t # <<>> /\ IsSpace(Head(t)) THEN LStrip(Tail(t)) ELSE t

RECURSIVE RStrip(_)
RStrip(t) ==
  IF t # <<>> /\ IsSpace(t[Len(t)]) THEN RStrip(SubSeq(t, 1, Len(t) - 1)) ELSE t

\* str.strip()
Strip(t) == LStrip(RStrip(t))

\* The last position of the run of characters of `set` that starts at i
\* (i - 1 where there is none).
RECURSIVE RunEnd(_, _, _)
RunEnd(t, i, set) ==
  IF i <= Len(t) /\ t[i] \in set THEN RunEnd(t, i + 1, set) ELSE i - 1

Spaces == {c \in Chars : IsSpace(c)}

\* [.!?] of _EN_SENT_SPLIT
EnTerminatorsMut == {"."}

EnTerminators == {".", "!", "?"}

\* [\n\r.\u06D4] of the fallback
FaSeparators == {"\n", "\r", ".", "U+06D4"}

\* _EN_SENT_SPLIT.split(text) for (?<=[.!?])\s+ : the text between the
\* matches, a match being a whole run of whitespace that follows one of
\* the three characters.
RECURSIVE EnSplitFrom(_, _, _)
EnSplitFrom(t, start, i) ==
  IF i > Len(t) THEN <<SubSeq(t, start, Len(t))>>
  ELSE IF i >= 2 /\ IsSpace(t[i]) /\ t[i - 1] \in EnTerminators
       THEN LET j == RunEnd(t, i, Spaces)
            IN <<SubSeq(t, start, i - 1)>> \o EnSplitFrom(t, j + 1, j + 1)
       ELSE EnSplitFrom(t, start, i + 1)

\* re.split(r"[\n\r.\u06D4]+\s*", text): a match is a whole run of the four
\* characters and the whitespace after it.
RECURSIVE FaSplitFrom(_, _, _)
FaSplitFrom(t, start, i) ==
  IF i > Len(t) THEN <<SubSeq(t, start, Len(t))>>
  ELSE IF t[i] \in FaSeparators
       THEN LET j == RunEnd(t, i, FaSeparators)
                k == RunEnd(t, j + 1, Spaces)
            IN <<SubSeq(t, start, i - 1)>> \o FaSplitFrom(t, k + 1, k + 1)
       ELSE FaSplitFrom(t, start, i + 1)

\* [p.strip() for p in parts if p.strip()]
RECURSIVE StripAll(_)
StripAll(parts) ==
  IF parts = <<>> THEN <<>>
  ELSE (IF Strip(Head(parts)) # <<>> THEN <<Strip(Head(parts))>> ELSE <<>>)
       \o StripAll(Tail(parts))

\* split_sentences(text, lang) where hazm is missing
SplitSentencesOf(t0, l) ==
  LET t == Strip(t0)
  IN IF t = <<>> THEN <<>>
     ELSE IF LangIsFa(l) THEN StripAll(FaSplitFrom(t, 1, 1))
     ELSE StripAll(EnSplitFrom(t, 1, 1))

SplitInit ==
  /\ s_text \in Texts
  /\ s_lang \in SplitLangs
  /\ split_ret = None
  /\ spc = "start"

SplitSentences ==
  /\ spc = "start"
  /\ ~HAZM_OK
  /\ split_ret' = Some(SplitSentencesOf(s_text, s_lang))
  /\ spc' = "done"
  /\ UNCHANGED <<s_text, s_lang>>
  /\ UNCHANGED outsideSplit

SplitNext == SplitSentences

\* split_sentences is not running.
SplitIdle ==
  /\ s_text = <<>>
  /\ s_lang = "en"
  /\ split_ret = None
  /\ spc = "idle"

(***************************************************************************)
(* embeddings.py.  A text is the sequence of its terms.  The TF-IDF        *)
(* vectorizer is modelled by its vocabulary (the terms of the corpus it    *)
(* was fitted on, sorted) and a row by the term counts over it; the SBERT  *)
(* encoder by term counts over a fixed vocabulary.  Cosine similarity      *)
(* ignores the scaling of a row.                                           *)
(***************************************************************************)
ChunkTexts == {<<1>>, <<2>>, <<1, 2>>}

Queries == ChunkTexts \cup {<<3>>}

SbertVocab == <<1, 2, 3>>

CountOf(term, text) == Cardinality({i \in 1..Len(text) : text[i] = term})

TermsOf(texts) ==
  UNION {{texts[i][j] : j \in 1..Len(texts[i])} : i \in 1..Len(texts)}

RECURSIVE SortedSeq(_)
SortedSeq(S) ==
  IF S = {} THEN <<>>
  ELSE LET m == CHOOSE x \in S : \A y \in S : x <= y
       IN <<m>> \o SortedSeq(S \ {m})

\* TfidfVectorizer.fit: the fitted state.
TfidfFit(texts) == [vocab |-> SortedSeq(TermsOf(texts))]

\* TfidfVectorizer.transform(texts).astype("float32").toarray()
TfidfTransform(vz, texts) ==
  [i \in 1..Len(texts) |->
     [j \in 1..Len(vz.vocab) |-> CountOf(vz.vocab[j], texts[i])]]

\* SbertEmbedding.fit_transform / transform: model.encode(texts)
SbertTransform(texts) == TfidfTransform([vocab |-> SbertVocab], texts)

RECURSIVE Dot(_, _)
Dot(a, b) ==
  IF a = <<>> THEN 0 ELSE Head(a) * Head(b) + Dot(Tail(a), Tail(b))

\* One entry of sklearn's cosine_similarity, as the integer part of
\* 1000 * sign(cos) * cos^2, which orders pairs as cos does; a zero row has
\* similarity 0 to everything.
Cos(q, v) ==
  LET d == Dot(q, v)
      n == Dot(q, q) * Dot(v, v)
  IN IF n = 0 THEN 0
     ELSE (IF d < 0 THEN -1 ELSE 1) * ((d * d * 1000) \div n)

\* cosine_similarity without the check of the two shapes: the columns that
\* both have.
CosineSimMut(qv, vectors) ==
  [ok |-> TRUE, err |-> "",
   sims |-> [i \in 1..Len(vectors) |->
               LET m == Min(Len(qv[1]), Len(vectors[i]))
               IN Cos(SubSeq(qv[1], 1, m), SubSeq(vectors[i], 1, m))]]

\* cosine_sim(a, b)[0] for a of shape (1, D'): the similarities of the query
\* row to every row of b; sklearn raises ValueError when D' differs from D.
CosineSim(qv, vectors) ==
  IF \E i \in 1..Len(vectors) : Len(vectors[i]) # Len(qv[1])
  THEN [ok |-> FALSE, err |-> "ValueError: Incompatible dimension", sims |-> <<>>]
  ELSE [ok |-> TRUE, err |-> "",
        sims |-> [i \in 1..Len(vectors) |-> Cos(qv[1], vectors[i])]]

(***************************************************************************)
(* indexer.py: the index dict and its persistence.                         *)
(***************************************************************************)

\* str.lower() on the backend names of the model.
PyLower(name) ==
  IF name = "TFIDF" THEN "tfidf"
  ELSE IF name = "SBERT" THEN "sbert"
  ELSE name

\* _select_embedder(name): the key of `(name or "tfidf").lower()`
SelectEmbedder(name) ==
  LET n == PyLower(IF name = "" THEN "tfidf" ELSE name)
  IN IF n = "tfidf" THEN "tfidf"
     ELSE IF n = "sbert" THEN "sbert"
     ELSE "ValueError: Unknown embedding backend"

\* build_index with the rows of the vectors in the reverse order of the chunks.
IndexOfChunksMut(cks, lang, emb_name, cs, ov) ==
  LET emb_key == SelectEmbedder(emb_name)
      rev == [i \in 1..Len(cks) |-> cks[Len(cks) + 1 - i]]
  IN [meta |-> [lang |-> lang, emb |-> emb_key, chunk_size |-> cs, overlap |-> ov],
      chunks |-> cks,
      vectors |-> IF emb_key = "tfidf" THEN TfidfTransform(TfidfFit(cks), rev)
                  ELSE SbertTransform(rev),
      tfidf_vectorizer |-> IF emb_key = "tfidf" THEN Some(TfidfFit(cks)) ELSE None]

\* build_index from the chunks on: the embedder, the vectors, the dict.
IndexOfChunks(cks, lang, emb_name, cs, ov) ==
  LET emb_key == SelectEmbedder(emb_name)
  IN [meta |-> [lang |-> lang, emb |-> emb_key, chunk_size |-> cs, overlap |-> ov],
      chunks |-> cks,
      vectors |-> IF emb_key = "tfidf" THEN TfidfTransform(TfidfFit(cks), cks)
                  ELSE SbertTransform(cks),
      tfidf_vectorizer |-> IF emb_key = "tfidf" THEN Some(TfidfFit(cks)) ELSE None]

\* Index dicts that build_index did not return as they are: save_index and
\* load_index take any dict and any pickle file.
Variants == {"built", "emb_unknown", "no_vectorizer", "emb_swapped"}

Variant(idx, v) ==
  IF v = "emb_unknown" THEN [idx EXCEPT !.meta.emb = "bm25"]
  ELSE IF v = "no_vectorizer" THEN [idx EXCEPT !.tfidf_vectorizer = None]
  ELSE IF v = "emb_swapped"
       THEN [idx EXCEPT !.meta.emb = IF @ = "tfidf" THEN "sbert" ELSE "tfidf"]
  ELSE idx

ChunkLists(n) == UNION {[1..m -> ChunkTexts] : m \in 1..n}

\* The chunk lists of the indexes that are saved: for every length up to n,
\* the lists that run through the texts in order from any first text.
TextCycle == << <<1>>, <<2>>, <<1, 2>> >>

SavedChunkLists(n) ==
  {[i \in 1..m |-> TextCycle[((s + i - 2) % Len(TextCycle)) + 1]] :
     m \in 1..n, s \in 1..Len(TextCycle)}

IndexesOver(lists) ==
  {Variant(IndexOfChunks(cks, lang, emb, 8, 2), v) :
     cks \in lists, lang \in {"en"}, emb \in {"tfidf", "sbert"},
     v \in Variants}

IndexInputs == IndexesOver(ChunkLists(MaxChunks))

SavedInputs == IndexesOver(SavedChunkLists(MaxSavedChunks))

\* pickle.dump(index, f): the dict's items in order.
Dump(idx) ==
  << <<"meta", idx.meta>>, <<"chunks", idx.chunks>>,
     <<"vectors", idx.vectors>>, <<"tfidf_vectorizer", idx.tfidf_vectorizer>> >>

\* open(path, "wb") and one write: the file holds the new object alone.
WriteFileMut(old, obj) == Append(old, obj)

WriteFile(old, obj) == <<obj>>

ItemOf(obj, key) == obj[CHOOSE i \in 1..Len(obj) : obj[i][1] = key][2]

\* pickle.load(f): the first pickled object of the file, as a dict.
Undump(objs) ==
  LET obj == objs[1]
  IN [meta |-> ItemOf(obj, "meta"), chunks |-> ItemOf(obj, "chunks"),
      vectors |-> ItemOf(obj, "vectors"),
      tfidf_vectorizer |-> ItemOf(obj, "tfidf_vectorizer")]

NoFile == [exists |-> FALSE, objs |-> <<>>]

\* The last call: which function, its query and k, and how it ended.
Outcome(op, q, k, kind, hits, err) ==
  [op |-> op, q |-> q, k |-> k, kind |-> kind, hits |-> hits, err |-> err]

NoCall == Outcome("none", <<>>, 0, "none", <<>>, "")

(***************************************************************************)
(* indexer.py: build_index.  The document is held as the sentences that    *)
(* split_sentences returns for it (each of at least one word); chunk_text  *)
(* runs make_chunks on them, step by step.                                 *)
(***************************************************************************)
DocSentences == {<<1>>, <<2>>, <<1, 2>>}

Docs == UNION {[1..n -> DocSentences] : n \in 0..MaxDocSents}

EmbNames == {"tfidf", "sbert", "TFIDF", "", "bm25"}

Langs == {"en", "fa"}

\* make_chunks has raised: pc holds the error.
Raised(p) == p \notin {"idle", "start", "loop", "done"}

\* build_index after chunk_text: _select_embedder (the SBERT constructor
\* raises where the package is missing), fit_transform (TfidfVectorizer
\* raises on a corpus without a term), the dict.
EmbedAndPack(cks, lang, emb_name, cs, ov, sbert_installed) ==
  LET emb_key == SelectEmbedder(emb_name)
  IN IF emb_key \notin {"tfidf", "sbert"}
     THEN [ok |-> FALSE, err |-> emb_key, index |-> None]
     ELSE IF emb_key = "sbert" /\ ~sbert_installed
     THEN [ok |-> FALSE, index |-> None,
           err |-> "RuntimeError: sentence-transformers is not installed"]
     ELSE IF emb_key = "tfidf" /\ TermsOf(cks) = {}
     THEN [ok |-> FALSE, index |-> None, err |-> "ValueError: empty vocabulary"]
     ELSE [ok |-> TRUE, err |-> "",
           index |-> Some(IndexOfChunks(cks, lang, emb_name, cs, ov))]

BuildInit ==
  /\ text_arg \in Docs
  /\ lang_arg \in Langs
  /\ emb_name_arg \in EmbNames
  /\ chunk_size \in (-1)..MaxDocSize
  /\ overlap \in (-1)..MaxDocSize
  /\ built = None
  /\ bpc = "start"
  /\ sentences = <<>>
  /\ chunks = <<>>
  /\ window = <<>>
  /\ count = 0
  /\ pos = 1
  /\ pc = "idle"
  /\ index = IndexOfChunks(<< <<1>> >>, "en", "tfidf", 8, 2)
  /\ disk = NoFile
  /\ ret = NoCall
  /\ env \in [argsort_stable : {TRUE}, sbert_installed : BOOLEAN]
  /\ saved = None
  /\ overwrote = FALSE

\* build_index up to the call of make_chunks inside chunk_text.
BuildIndexCall ==
  /\ bpc = "start"
  /\ sentences' = text_arg
  /\ chunks' = <<>>
  /\ window' = <<>>
  /\ count' = 0
  /\ pos' = 1
  /\ pc' = "start"
  /\ bpc' = "chunk_text"
  /\ UNCHANGED <<chunk_size, overlap, text_arg, lang_arg, emb_name_arg, built>>
  /\ UNCHANGED indexVars
  /\ UNCHANGED outsideBuild

\* make_chunks has returned: the rest of build_index.
BuildIndexEmbed ==
  /\ bpc = "chunk_text"
  /\ pc = "done"
  /\ LET o == EmbedAndPack(chunks, lang_arg, emb_name_arg, chunk_size, overlap,
                           env.sbert_installed)
     IN /\ built' = o.index
        /\ ret' = Outcome("build", <<>>, 0, IF o.ok THEN "ok" ELSE "error",
                          <<>>, o.err)
  /\ bpc' = "done"
  /\ UNCHANGED <<text_arg, lang_arg, emb_name_arg, index, disk, env, saved, overwrote>>
  /\ UNCHANGED chunkVars
  /\ UNCHANGED outsideBuild

\* make_chunks has raised: neither chunk_text nor build_index catches.
BuildIndexRaise ==
  /\ bpc = "chunk_text"
  /\ Raised(pc)
  /\ built' = None
  /\ ret' = Outcome("build", <<>>, 0, "error", <<>>, pc)
  /\ bpc' = "done"
  /\ UNCHANGED <<text_arg, lang_arg, emb_name_arg, index, disk, env, saved, overwrote>>
  /\ UNCHANGED chunkVars
  /\ UNCHANGED outsideBuild

BuildNext ==
  \/ BuildIndexCall
  \/ MakeChunksCall
  \/ LoopStep
  \/ MakeChunksReturn
  \/ BuildIndexEmbed
  \/ BuildIndexRaise

\* build_index is not running.
BuildIdle ==
  /\ text_arg = <<>>
  /\ lang_arg = "en"
  /\ emb_name_arg = "tfidf"
  /\ built = None
  /\ bpc = "idle"

(***************************************************************************)
(* retriever.py                                                            *)
(***************************************************************************)

\* query_to_vector with `else:` in place of `elif emb == "sbert":`.
QueryToVectorElseSbert(idx, text, sbert_installed) ==
  IF idx.meta.emb = "tfidf"
  THEN IF idx.tfidf_vectorizer = None
       THEN [ok |-> FALSE, vec |-> <<>>,
             err |-> "RuntimeError: TF-IDF vectorizer missing from index"]
       ELSE [ok |-> TRUE, err |-> "",
             vec |-> TfidfTransform(idx.tfidf_vectorizer[1], <<text>>)]
  ELSE IF ~sbert_installed
       THEN [ok |-> FALSE, vec |-> <<>>,
             err |-> "RuntimeError: sentence-transformers is not installed"]
       ELSE [ok |-> TRUE, err |-> "", vec |-> SbertTransform(<<text>>)]

\* query_to_vector without the `if tfidf is None` check.
QueryToVectorNoCheck(idx, text, sbert_installed) ==
  IF idx.meta.emb = "tfidf"
  THEN IF idx.tfidf_vectorizer = None
       THEN [ok |-> FALSE, vec |-> <<>>,
             err |-> "AttributeError: 'NoneType' object has no attribute 'transform'"]
       ELSE [ok |-> TRUE, err |-> "",
             vec |-> TfidfTransform(idx.tfidf_vectorizer[1], <<text>>)]
  ELSE IF idx.meta.emb = "sbert"
  THEN IF ~sbert_installed
       THEN [ok |-> FALSE, vec |-> <<>>,
             err |-> "RuntimeError: sentence-transformers is not installed"]
       ELSE [ok |-> TRUE, err |-> "", vec |-> SbertTransform(<<text>>)]
  ELSE [ok |-> FALSE, vec |-> <<>>,
        err |-> "ValueError: Unknown embedding backend"]

\* query_to_vector(index, text)
QueryToVector(idx, text, sbert_installed) ==
  LET emb == idx.meta.emb
  IN IF emb = "tfidf"
     THEN IF idx.tfidf_vectorizer = None
          THEN [ok |-> FALSE, vec |-> <<>>,
                err |-> "RuntimeError: TF-IDF vectorizer missing from index"]
          ELSE [ok |-> TRUE, err |-> "",
                vec |-> TfidfTransform(idx.tfidf_vectorizer[1], <<text>>)]
     ELSE IF emb = "sbert"
     THEN IF ~sbert_installed
          THEN [ok |-> FALSE, vec |-> <<>>,
                err |-> "RuntimeError: sentence-transformers is not installed"]
          ELSE [ok |-> TRUE, err |-> "", vec |-> SbertTransform(<<text>>)]
     ELSE [ok |-> FALSE, vec |-> <<>>,
           err |-> "ValueError: Unknown embedding backend"]

\* np.argsort(-sims): the positions by descending similarity.  The default
\* sort kind is not stable: where similarities are equal the order is the
\* numpy build's, ascending position in one build and not in another.
Before(sims, stable, i, j) ==
  \/ sims[i] > sims[j]
  \/ sims[i] = sims[j] /\ (IF stable THEN i < j ELSE i > j)

ArgSortDescMut(sims, stable) ==
  [r \in 1..Len(sims) |->
     CHOOSE i \in 1..Len(sims) :
       Cardinality({j \in 1..Len(sims) : Before(sims, stable, i, j)}) = r - 1]

ArgSortDesc(sims, stable) ==
  [r \in 1..Len(sims) |->
     CHOOSE i \in 1..Len(sims) :
       Cardinality({j \in 1..Len(sims) : Before(sims, stable, j, i)}) = r - 1]

\* Python's seq[:n]
PyPrefix(s, n) ==
  IF n >= 0 THEN SubSeq(s, 1, Min(n, Len(s)))
  ELSE SubSeq(s, 1, Max(Len(s) + n, 0))

\* `max(1, k)`
ClampKMut(k) == k

ClampK(k) == Max(1, k)

\* search(index, query, k)
SearchCall(idx, q, k, e) ==
  LET qv == QueryToVector(idx, q, e.sbert_installed)
  IN IF ~qv.ok THEN Outcome("search", q, k, "error", <<>>, qv.err)
     ELSE LET cs == CosineSim(qv.vec, idx.vectors)
          IN IF ~cs.ok THEN Outcome("search", q, k, "error", <<>>, cs.err)
             ELSE LET order == ArgSortDesc(cs.sims, e.argsort_stable)
                      top == PyPrefix(order, ClampK(k))
                  IN Outcome("search", q, k, "ok",
                             [r \in 1..Len(top) |->
                                [score |-> cs.sims[top[r]],
                                 chunk |-> idx.chunks[top[r]],
                                 idx |-> top[r] - 1]],
                             "")

Envs == [argsort_stable : BOOLEAN, sbert_installed : BOOLEAN]

Ks == (-1)..(MaxChunks + 1)

\* `k: int = 4`
DefaultK == 4

\* search with query_to_vector fitting the stored vectorizer on the query.
SearchMut(q, k) ==
  /\ ret' = SearchCall(index, q, k, env)
  /\ index' = IF index.tfidf_vectorizer # None
              THEN [index EXCEPT !.tfidf_vectorizer = Some(TfidfFit(<<q>>))]
              ELSE index
  /\ UNCHANGED <<disk, env, saved, overwrote>>
  /\ UNCHANGED outsideIndex

Search(q, k) ==
  /\ ret' = SearchCall(index, q, k, env)
  /\ UNCHANGED <<index, disk, env, saved, overwrote>>
  /\ UNCHANGED outsideIndex

\* save_index(index, path)
SaveIndex ==
  /\ disk' = [exists |-> TRUE, objs |-> WriteFile(disk.objs, Dump(index))]
  /\ saved' = Some(index)
  /\ overwrote' = (overwrote \/ (disk.exists /\ saved # Some(index)))
  /\ ret' = Outcome("save", <<>>, 0, "ok", <<>>, "")
  /\ UNCHANGED <<index, env>>
  /\ UNCHANGED outsideIndex

\* index = load_index(path)
LoadIndex ==
  /\ IF disk.exists
     THEN /\ index' = Undump(disk.objs)
          /\ ret' = Outcome("load", <<>>, 0, "ok", <<>>, "")
     ELSE /\ index' = index
          /\ ret' = Outcome("load", <<>>, 0, "error", <<>>, "FileNotFoundError")
  /\ UNCHANGED <<disk, env, saved, overwrote>>
  /\ UNCHANGED outsideIndex

\* The caller takes up another index dict.
NewIndex ==
  /\ index' \in SavedInputs \ {index}
  /\ ret' = NoCall
  /\ UNCHANGED <<disk, env, saved, overwrote>>
  /\ UNCHANGED outsideIndex

IndexIdle ==
  /\ index = IndexOfChunks(<< <<1>> >>, "en", "tfidf", 8, 2)
  /\ disk = NoFile
  /\ ret = NoCall
  /\ env = [argsort_stable |-> TRUE, sbert_installed |-> TRUE]
  /\ saved = None
  /\ overwrote = FALSE

SearchInit ==
  /\ index \in IndexInputs
  /\ env \in Envs
  /\ disk = NoFile
  /\ ret = NoCall
  /\ saved = None
  /\ overwrote = FALSE

SearchNext == \E q \in Queries, k \in Ks : Search(q, k)

PersistInit ==
  /\ index \in SavedInputs
  /\ env = [argsort_stable |-> TRUE, sbert_installed |-> TRUE]
  /\ disk = NoFile
  /\ ret = NoCall
  /\ saved = None
  /\ overwrote = FALSE

PersistNext ==
  \/ SaveIndex
  \/ LoadIndex
  \/ NewIndex
  \/ \E q \in Queries : Search(q, DefaultK)

(***************************************************************************)
(* thermostat_agent.py.  Temperatures, setpoints, offsets and the deadband *)
(* are whole degrees; half = deadband / 2.0 may lie between two of them,   *)
(* so a comparison with sp - half or sp + half is made on the doubles.     *)
(***************************************************************************)
Modes == {"heating", "cooling", "auto", "Heating", "manual"}

Setpoints == {3, 6}

EcoOffsets == {0, 1}

Configs ==
  [mode : Modes, setpoint_h : Setpoints, setpoint_c : Setpoints,
   deadband : 0..MaxDeadband, eco_offset : EcoOffsets]

Percepts == [temperature : 0..MaxTemp, occupied : BOOLEAN]

\* str.lower() on the modes of the model.
ModeLower(m) == IF m = "Heating" THEN "heating" ELSE m

\* sp_h and sp_c
SpH(c, p) == c.setpoint_h - (IF p.occupied THEN 0 ELSE c.eco_offset)

SpC(c, p) == c.setpoint_c + (IF p.occupied THEN 0 ELSE c.eco_offset)

\* temp < sp - half, temp > sp + half
BelowBand(temp, sp, deadband) == 2 * temp < 2 * sp - deadband

AboveBand(temp, sp, deadband) == 2 * temp > 2 * sp + deadband

\* heat_rule with `<=` for `<`.
HeatRuleMut(temp, sp_h, deadband, last) ==
  IF 2 * temp <= 2 * sp_h - deadband THEN "HEAT_ON"
  ELSE IF AboveBand(temp, sp_h, deadband) THEN "OFF"
  ELSE IF last = "HEAT_ON" THEN last ELSE "OFF"

HeatRule(temp, sp_h, deadband, last) ==
  IF BelowBand(temp, sp_h, deadband) THEN "HEAT_ON"
  ELSE IF AboveBand(temp, sp_h, deadband) THEN "OFF"
  ELSE IF last = "HEAT_ON" THEN last ELSE "OFF"

CoolRule(temp, sp_c, deadband, last) ==
  IF AboveBand(temp, sp_c, deadband) THEN "COOL_ON"
  ELSE IF BelowBand(temp, sp_c, deadband) THEN "OFF"
  ELSE IF last = "COOL_ON" THEN last ELSE "OFF"

\* The auto branch with OFF where both thresholds are violated.
AutoRuleMut(temp, sp_h, sp_c, deadband, last) ==
  LET need_heat == BelowBand(temp, sp_h, deadband)
      need_cool == AboveBand(temp, sp_c, deadband)
  IN IF need_heat /\ ~need_cool THEN "HEAT_ON"
     ELSE IF need_cool /\ ~need_heat THEN "COOL_ON"
     ELSE IF need_heat /\ need_cool THEN "OFF"
     ELSE IF last = "HEAT_ON" THEN HeatRule(temp, sp_h, deadband, last)
     ELSE IF last = "COOL_ON" THEN CoolRule(temp, sp_c, deadband, last)
     ELSE "OFF"

\* The auto branch of decide.
AutoRule(temp, sp_h, sp_c, deadband, last) ==
  LET need_heat == BelowBand(temp, sp_h, deadband)
      need_cool == AboveBand(temp, sp_c, deadband)
  IN IF need_heat /\ ~need_cool THEN "HEAT_ON"
     ELSE IF need_cool /\ ~need_heat THEN "COOL_ON"
     ELSE IF need_heat /\ need_cool THEN last
     ELSE IF last = "HEAT_ON" THEN HeatRule(temp, sp_h, deadband, last)
     ELSE IF last = "COOL_ON" THEN CoolRule(temp, sp_c, deadband, last)
     ELSE "OFF"

\* decide(p): the action, or the error of an unknown mode.
DecideOf(c, last, p) ==
  LET mode == ModeLower(c.mode)
      temp == p.temperature
  IN IF mode = "heating" THEN HeatRule(temp, SpH(c, p), c.deadband, last)
     ELSE IF mode = "cooling" THEN CoolRule(temp, SpC(c, p), c.deadband, last)
     ELSE IF mode = "auto"
          THEN AutoRule(temp, SpH(c, p), SpC(c, p), c.deadband, last)
     ELSE "ValueError: mode must be one of: heating|cooling|auto"

Actions == {"HEAT_ON", "COOL_ON", "OFF"}

NoPercept == [temperature |-> 0, occupied |-> FALSE]

ThermoInit ==
  /\ cfg \in Configs
  /\ last_action = "OFF"
  /\ percept = NoPercept
  /\ prev_action = "OFF"
  /\ decided = None

\* agent.decide(p)
Decide(p) ==
  /\ percept' = p
  /\ prev_action' = last_action
  /\ decided' = Some(DecideOf(cfg, last_action, p))
  /\ last_action' = IF DecideOf(cfg, last_action, p) \in Actions
                     THEN DecideOf(cfg, last_action, p)
                     ELSE last_action
  /\ UNCHANGED cfg
  /\ UNCHANGED outsideThermo

ThermoNext == \E p \in Percepts : Decide(p)

\* No thermostat.
ThermoIdle ==
  /\ cfg = [mode |-> "auto", setpoint_h |-> 3, setpoint_c |-> 6,
            deadband |-> 1, eco_offset |-> 0]
  /\ last_action = "OFF"
  /\ percept = NoPercept
  /\ prev_action = "OFF"
  /\ decided = None

(***************************************************************************)
(* react_minimal/tools.py and memory.py: the registry of four tools over   *)
(* one LongTermMemory, and call_tool.  A payload is what the model put     *)
(* under "input": a mapping (the keys it has and their values), a string   *)
(* or a list (what `in` finds in it), or a number.                         *)
(***************************************************************************)
NoteKeys == {"wifi", "door"}

NoteTexts == {"", "a", "b"}

Expressions == {"2+2", "os.system()"}

Registry == {"calculator", "time_now", "notes_write", "notes_read"}

\* The names a caller may pass: the four tools, a name of no tool, and a JSON
\* list (unhashable).
ToolNames == Registry \cup {"nope", "<list>"}

Mapping(has, expression, key, text) ==
  [kind |-> "mapping", has |-> has, expression |-> expression, key |-> key,
   text |-> text]

NonMapping(kind, has) ==
  [kind |-> kind, has |-> has, expression |-> "", key |-> "", text |-> ""]

Payloads ==
  {Mapping({}, "", "", "")}
  \cup {Mapping({"expression"}, e, "", "") : e \in Expressions}
  \cup {Mapping({"expression", "extra"}, "2+2", "", "")}
  \cup {Mapping({"key"}, "", k, "") : k \in NoteKeys}
  \cup {Mapping({"key", "text"}, "", k, t) : k \in NoteKeys, t \in NoteTexts}
  \cup {Mapping({"key", "text", "extra"}, "", "wifi", "a")}
  \cup {NonMapping("string", {}), NonMapping("string", {"key"}),
        NonMapping("list", {"expression"}), NonMapping("number", {})}

\* schema.get("required", [])
Required(name) ==
  IF name = "calculator" THEN {"expression"}
  ELSE IF name = "notes_write" THEN {"key", "text"}
  ELSE IF name = "notes_read" THEN {"key"}
  ELSE {}

\* The keyword arguments the tool's lambda takes: `lambda **_` takes any.
Accepts(name, has) == name = "time_now" \/ has = Required(name)

\* safe_calculate(expression)
SafeCalculate(expression) ==
  IF expression = "2+2" THEN "4"
  ELSE "CALC_ERROR: Unsupported expression for calculator"

\* LongTermMemory.get / set on _data
MemGet(mem, key) == mem[key]

MemSet(mem, key, text) == [mem EXCEPT ![key] = Some(text)]

\* notes_read with the value as stored, without `or ""`.
NotesReadMut(mem, key) ==
  IF MemGet(mem, key) = None THEN "None" ELSE MemGet(mem, key)[1]

\* notes_read(mem, key): mem.get(key) or ""
NotesRead(mem, key) ==
  IF MemGet(mem, key) = None \/ MemGet(mem, key) = Some("") THEN ""
  ELSE MemGet(mem, key)[1]

\* notes_write that stores every text under one key.
NotesWriteMut(mem, key, text) == MemSet(mem, "wifi", text)

\* notes_write(mem, key, text): the memory after it
NotesWrite(mem, key, text) == MemSet(mem, key, text)

ToolResult(kind, value, invoked, mem) ==
  [kind |-> kind, value |-> value, invoked |-> invoked, mem |-> mem]

\* tool.func(**payload) for a mapping payload the lambda takes
ToolFunc(mem, name, p) ==
  IF name = "calculator"
  THEN ToolResult("ok", SafeCalculate(p.expression), TRUE, mem)
  ELSE IF name = "time_now"
  THEN ToolResult("ok", "2026-01-01T00:00:00", TRUE, mem)
  ELSE IF name = "notes_write"
  THEN ToolResult("ok", "OK", TRUE, NotesWrite(mem, p.key, p.text))
  ELSE ToolResult("ok", NotesRead(mem, p.key), TRUE, mem)

\* call_tool(reg, name, payload): what it returns or raises, whether a tool
\* function ran, and the memory after it.
CallToolOn(mem, name, p) ==
  IF name = "<list>"
  THEN ToolResult("raise", "TypeError: unhashable type: 'list'", FALSE, mem)
  ELSE IF name \notin Registry
  THEN ToolResult("tool_error", "TOOL_ERROR: Unknown tool", FALSE, mem)
  ELSE IF Required(name) # {} /\ p.kind = "number"
  THEN ToolResult("raise", "TypeError: argument of type 'int' is not iterable",
                  FALSE, mem)
  ELSE IF ~(Required(name) \subseteq p.has)
  THEN ToolResult("tool_error", "TOOL_ERROR: Missing required field", FALSE, mem)
  ELSE IF p.kind # "mapping" \/ ~Accepts(name, p.has)
  THEN ToolResult("tool_error", "TOOL_ERROR: Bad arguments", FALSE, mem)
  ELSE ToolFunc(mem, name, p)

Stores == [NoteKeys -> {None} \cup {Some(t) : t \in NoteTexts}]

NoToolCall ==
  [name |-> "", payload |-> Mapping({}, "", "", ""), kind |-> "none",
   value |-> "", invoked |-> FALSE]

\* A LongTermMemory over a file that earlier runs may have written.
ToolInit ==
  /\ ltm \in Stores
  /\ written = ltm
  /\ tool_ret = NoToolCall

\* call_tool(reg, name, payload); a notes_write that the lambda takes is
\* remembered as the last write under its key.
ToolCall(name, p) ==
  /\ LET r == CallToolOn(ltm, name, p)
     IN /\ ltm' = r.mem
        /\ tool_ret' = [name |-> name, payload |-> p, kind |-> r.kind,
                        value |-> r.value, invoked |-> r.invoked]
  /\ written' = IF /\ name = "notes_write"
                   /\ p.kind = "mapping"
                   /\ p.has = {"key", "text"}
                THEN [written EXCEPT ![p.key] = Some(p.text)]
                ELSE written
  /\ UNCHANGED outsideTool

ToolNext == \E name \in ToolNames, p \in Payloads : ToolCall(name, p)

\* No registry.
ToolIdle ==
  /\ ltm = [k \in NoteKeys |-> None]
  /\ written = [k \in NoteKeys |-> None]
  /\ tool_ret = NoToolCall

(***************************************************************************)
(* react_minimal: ReActAgent.run and call_tool.  An LLM output is what     *)
(* _parse_json_block makes of it: no JSON object, or an object with its    *)
(* "action" and "final" values.                                            *)
(***************************************************************************)
NoAction == [kind |-> "absent", tool |-> "", input |-> ""]

EmptyAction == [kind |-> "empty_object", tool |-> "", input |-> ""]

TextAction == [kind |-> "string", tool |-> "", input |-> ""]

ToolAction(tool, input) == [kind |-> "object", tool |-> tool, input |-> input]

NoFinal == [kind |-> "absent", value |-> ""]

StrFinal(v) == [kind |-> "string", value |-> v]

NumFinal == [kind |-> "number", value |-> "7"]

Json(a, f) == [json |-> TRUE, action |-> a, final |-> f]

LLMOutputs ==
  {[json |-> FALSE, action |-> NoAction, final |-> NoFinal],
   Json(NoAction, StrFinal("A")),
   Json(NoAction, StrFinal("")),
   Json(NoAction, NoFinal),
   Json(NoAction, NumFinal),
   Json(ToolAction("calculator", "expression"), NoFinal),
   Json(ToolAction("calculator", "number"), NoFinal),
   Json(ToolAction("nope", "expression"), NoFinal),
   Json(TextAction, NoFinal),
   Json(ToolAction("calculator", "expression"), StrFinal("A")),
   Json(ToolAction("calculator", "expression"), StrFinal("")),
   Json(EmptyAction, StrFinal("A"))}

\* Python's truth value of obj.get("action") and of obj.get("final")
ActionTruthy(a) == a.kind \in {"object", "string"}

FinalTruthy(f) == f.kind = "number" \/ (f.kind = "string" /\ f.value # "")

\* The branch of the loop body that with `if action:` ahead of
\* `if action and final:` an output takes.
BranchOfMut(o) ==
  IF ~o.json THEN "non_json"
  ELSE IF ActionTruthy(o.action) THEN "action"
  ELSE IF o.final.kind = "string" THEN "final"
  ELSE "invalid"

\* The branch of the loop body an output takes.
BranchOf(o) ==
  IF ~o.json THEN "non_json"
  ELSE IF ActionTruthy(o.action) /\ FinalTruthy(o.final) THEN "both"
  ELSE IF ActionTruthy(o.action) THEN "action"
  ELSE IF o.final.kind = "string" THEN "final"
  ELSE "invalid"

\* call_tool(self.tools, tool_name, payload) for the payloads of the model's
\* actions: a mapping with the expression, a number, or no input (`or {}`).
CallTool(name, payload) ==
  LET p == IF payload = "expression" THEN Mapping({"expression"}, "2+2", "", "")
           ELSE IF payload = "number" THEN NonMapping("number", {})
           ELSE Mapping({}, "", "", "")
      r == CallToolOn([k \in NoteKeys |-> None], name, p)
  IN [raised |-> r.kind = "raise", value |-> r.value]

\* ShortTermMemory.add(thought, action, observation): one entry of the trace
Entry(thought, action, observation) ==
  [thought |-> thought, action |-> action, observation |-> observation]

LimitMessage == "I couldn't complete the task within the step limit."

Running == run_ret.kind = "running"

AgentInit ==
  /\ max_steps \in (-1)..MaxSteps
  /\ outs = <<>>
  /\ short_mem = <<>>
  /\ tool_calls = <<>>
  /\ scratch_seen = <<>>
  /\ run_ret = [kind |-> "running", value |-> ""]

\* One iteration of `for step in range(1, max_steps + 1)`: the LLM call on
\* the current scratchpad and what run does with its output.
RunStep(o) ==
  /\ Running
  /\ Len(outs) < max_steps
  /\ outs' = Append(outs, o)
  /\ scratch_seen' = Append(scratch_seen, short_mem)
  /\ LET b == BranchOf(o)
         obs == CallTool(o.action.tool, o.action.input)
     IN IF b = "non_json"
        THEN /\ short_mem' = Append(short_mem,
                                    Entry("Model returned non-JSON", None, None))
             /\ UNCHANGED <<tool_calls, run_ret>>
        ELSE IF b = "both"
        THEN /\ short_mem' = Append(short_mem,
                 Entry("thought", None,
                       Some("Tool+Final both present; choose one only.")))
             /\ UNCHANGED <<tool_calls, run_ret>>
        ELSE IF b = "action"
        THEN IF o.action.kind # "object"
             THEN /\ run_ret' = [kind |-> "raise", value |->
                                 "AttributeError: 'str' object has no attribute 'get'"]
                  /\ UNCHANGED <<short_mem, tool_calls>>
             ELSE /\ tool_calls' = Append(tool_calls, o.action)
                  /\ IF obs.raised
                     THEN /\ run_ret' = [kind |-> "raise", value |-> obs.value]
                          /\ UNCHANGED short_mem
                     ELSE /\ short_mem' = Append(short_mem,
                              Entry("thought", Some(o.action), Some(obs.value)))
                          /\ UNCHANGED run_ret
        ELSE IF b = "final"
        THEN /\ run_ret' = [kind |-> "return", value |-> o.final.value]
             /\ UNCHANGED <<short_mem, tool_calls>>
        ELSE /\ short_mem' = Append(short_mem,
                 Entry("thought", None, Some("Invalid output (no action/final)")))
             /\ UNCHANGED <<tool_calls, run_ret>>
  /\ UNCHANGED max_steps
  /\ UNCHANGED outsideAgent

\* The loop is exhausted.
RunLimit ==
  /\ Running
  /\ Len(outs) >= max_steps
  /\ run_ret' = [kind |-> "return", value |-> LimitMessage]
  /\ UNCHANGED <<max_steps, outs, short_mem, tool_calls, scratch_seen>>
  /\ UNCHANGED outsideAgent

AgentNext == (\E o \in LLMOutputs : RunStep(o)) \/ RunLimit

\* No agent.
AgentIdle ==
  /\ max_steps = 0
  /\ outs = <<>>
  /\ short_mem = <<>>
  /\ tool_calls = <<>>
  /\ scratch_seen = <<>>
  /\ run_ret = [kind |-> "idle", value |-> ""]

(***************************************************************************)
(* tools_tsetmc_lc.py: the TSETMC quote tool.  "xodro" stands for a        *)
(* Persian l18 name, the one string of the model that is not ASCII.        *)
(***************************************************************************)
MaxTable == 2

NonAscii == {"xodro"}

Symbols == {"", " ", "IKCO", "ikco", "FOLD", "ZZZ", "xodro"}

PriceFields == {"pl", "pc", "py"}

\* _normalize(s): unicodedata.normalize("NFC", s or "").strip()
Normalize(s) == IF s = " " THEN "" ELSE s

\* _is_ascii(s)
IsAscii(s) == s \notin NonAscii

\* str.upper() on the strings of the model.
Upper(s) == IF s = "ikco" THEN "IKCO" ELSE s

\* `if err`, `not l18`: None and the empty string are falsy.
Truthy(o) == o # None /\ o[1] # ""

\* The items of a symbol table: a JSON object with its four fields (a field
\* that is absent reads as "" through item.get(field, "")), or a JSON value
\* that is not an object.
TableItem(c4, c5, isin, name) ==
  [object |-> TRUE, code_4 |-> c4, code_5 |-> c5, isin |-> isin, l18 |-> name]

NonObject == [object |-> FALSE, code_4 |-> "", code_5 |-> "", isin |-> "", l18 |-> ""]

TableItems ==
  { TableItem("IKCO", "IKCO1", "IR1", "xodro"),
    TableItem("FOLD", "", "", ""),
    TableItem("X", "", "", "IKCO"),
    NonObject }

\* The JSON values a response body decodes to.
JNull == [type |-> "null", items |-> <<>>, pl |-> None, pc |-> None, py |-> None]

JList(items) == [type |-> "list", items |-> items, pl |-> None, pc |-> None, py |-> None]

JObject(last, close, yclose) ==
  [type |-> "object", items |-> <<>>, pl |-> last, pc |-> close, py |-> yclose]

Tables == UNION { [1..n -> TableItems] : n \in 0..MaxTable }

\* What requests.get and the decoding of the body come to: a status that is
\* not 200, an exception with a message or without one, a body that is not
\* JSON, or a JSON value.
Failure(kind) == [kind |-> kind, value |-> JNull]

Decoded(v) == [kind |-> "json", value |-> v]

Failures == {Failure("status"), Failure("exception"), Failure("silent"), Failure("nonjson")}

TableOutcomes ==
  Failures \cup {Decoded(JNull), Decoded(JObject(None, None, None))}
           \cup {Decoded(JList(t)) : t \in Tables}

QuoteOutcomes ==
  Failures \cup {Decoded(JNull), Decoded(JList(<<>>)),
                 Decoded(JObject(Some(1), Some(2), None))}

\* _get(path, params): (data, err) and whether a request was sent.
Get(key, outcome) ==
  IF ~key THEN [data |-> None, err |-> Some("BRSAPI_KEY env var not set"), sent |-> FALSE]
  ELSE IF outcome.kind = "status" THEN [data |-> None, err |-> Some("HTTP 500"), sent |-> TRUE]
  ELSE IF outcome.kind = "exception" THEN [data |-> None, err |-> Some("boom"), sent |-> TRUE]
  ELSE IF outcome.kind = "silent" THEN [data |-> None, err |-> Some(""), sent |-> TRUE]
  ELSE IF outcome.kind = "nonjson" THEN [data |-> None, err |-> Some("Expecting value"), sent |-> TRUE]
  ELSE [data |-> Some(outcome.value), err |-> None, sent |-> TRUE]

\* `sym_u in (code4, code5, isin)`
CodeMatch(item, sym_u) ==
  sym_u \in {Upper(Normalize(item.code_4)), Upper(Normalize(item.code_5)),
             Upper(Normalize(item.isin))}

\* `_normalize(str(item.get("l18", ""))).upper() == sym_u`
NameMatch(item, sym_u) == Upper(Normalize(item.l18)) = sym_u

\* The first position of a sequence that satisfies a test (0: none).
First(items, Test(_)) ==
  LET hits == {i \in DOMAIN items : Test(items[i])}
  IN IF hits = {} THEN 0 ELSE CHOOSE i \in hits : \A j \in hits : i <= j

Resolved(name, err, sent, raised) ==
  [l18 |-> name, err |-> err, sent |-> sent, raised |-> raised]

\* The two loops of _resolve_l18 over a table: item.get raises
\* AttributeError on the first item that is not an object.
ResolveIn(items, symbol, sym_u) ==
  LET IsBad(it) == ~it.object
      ByCode(it) == it.object /\ CodeMatch(it, sym_u)
      ByName(it) == NameMatch(it, sym_u)
      bad == First(items, IsBad)
      code == First(items, ByCode)
      name == First(items, ByName)
  IN IF bad # 0 /\ (code = 0 \/ bad < code)
       THEN Resolved(None, Some("AttributeError: object has no attribute 'get'"), TRUE, TRUE)
     ELSE IF code # 0
       THEN Resolved(IF Normalize(items[code].l18) = "" THEN None
                     ELSE Some(Normalize(items[code].l18)), None, TRUE, FALSE)
     ELSE IF name # 0
       THEN Resolved(Some(Normalize(items[name].l18)), None, TRUE, FALSE)
     ELSE Resolved(None, Some("symbol not found in AllSymbols"), TRUE, FALSE)

\* _resolve_l18(symbol), the table request coming to `outcome`.
ResolveL18(symbol, key, outcome) ==
  LET sym == Normalize(symbol)
      g == Get(key, outcome)
  IN IF sym = "" THEN Resolved(None, Some("empty symbol"), FALSE, FALSE)
     ELSE IF ~IsAscii(sym) THEN Resolved(Some(sym), None, FALSE, FALSE)
     ELSE IF Truthy(g.err) \/ g.data = None \/ g.data[1].type # "list"
       THEN Resolved(None, IF Truthy(g.err) THEN g.err ELSE Some("unexpected response"),
                     g.sent, FALSE)
     ELSE ResolveIn(g.data[1].items, symbol, Upper(sym))

\* What _get_tsetmc_quote gives back: a JSON string, by its fields, or an
\* exception.
QuoteResult(kind, type, name, price, message) ==
  [kind |-> kind, type |-> type, symbol_l18 |-> name, price |-> price, message |-> message]

NoQuoteCall == QuoteResult("none", "", None, None, "")

\* price_map.get(price_field)
PriceOf(data, field) ==
  IF field = "pl" THEN data.pl ELSE IF field = "pc" THEN data.pc ELSE data.py

QuoteInit ==
  /\ brsapi_key \in BOOLEAN
  /\ symbol_arg = ""
  /\ price_field = "pc"
  /\ qpc = "idle"
  /\ l18 = None
  /\ resolve_err = None
  /\ requests_log = <<>>
  /\ quote_ret = NoQuoteCall

\* Entry of _get_tsetmc_quote: the key check.
GetTsetmcQuoteCall(symbol, field) ==
  /\ qpc \in {"idle", "done"}
  /\ symbol_arg' = symbol
  /\ price_field' = field
  /\ l18' = None
  /\ resolve_err' = None
  /\ requests_log' = <<>>
  /\ IF ~brsapi_key
       THEN /\ quote_ret' = QuoteResult("return", "TOOL_ERROR", None, None,
                                        "Missing BRSAPI_KEY environment variable")
            /\ qpc' = "done"
       ELSE /\ quote_ret' = NoQuoteCall
            /\ qpc' = "resolve"
  /\ UNCHANGED brsapi_key
  /\ UNCHANGED outsideQuote

\* `l18, err = _resolve_l18(symbol)` and the test after it.
GetTsetmcQuoteResolve(outcome) ==
  /\ qpc = "resolve"
  /\ LET r == ResolveL18(symbol_arg, brsapi_key, outcome)
     IN /\ requests_log' = IF r.sent THEN Append(requests_log, "AllSymbols.php")
                           ELSE requests_log
        /\ IF r.raised
             THEN /\ quote_ret' = QuoteResult("raise", "", None, None, r.err[1])
                  /\ qpc' = "done"
                  /\ UNCHANGED <<l18, resolve_err>>
           ELSE /\ l18' = r.l18
                /\ resolve_err' = r.err
                /\ IF Truthy(r.err) /\ ~Truthy(r.l18)
                     THEN /\ quote_ret' = QuoteResult("return", "DATA_ERROR", None, None, r.err[1])
                          /\ qpc' = "done"
                     ELSE /\ quote_ret' = quote_ret
                          /\ qpc' = "quote"
  /\ UNCHANGED <<brsapi_key, symbol_arg, price_field>>
  /\ UNCHANGED outsideQuote

\* `data, err = _get("Symbol.php", {"l18": l18})` and the rest.
GetTsetmcQuoteFetch(outcome) ==
  /\ qpc = "quote"
  /\ LET g == Get(brsapi_key, outcome)
     IN /\ requests_log' = IF g.sent THEN Append(requests_log, "Symbol.php")
                           ELSE requests_log
        /\ quote_ret' =
             IF Truthy(g.err)
               THEN QuoteResult("return", "DATA_ERROR", None, None, g.err[1])
             ELSE IF g.data = None \/ g.data[1].type # "object"
               THEN QuoteResult("return", "DATA_ERROR", None, None, "unexpected response")
             ELSE QuoteResult("return", "QUOTE", l18, PriceOf(g.data[1], price_field), "")
  /\ qpc' = "done"
  /\ UNCHANGED <<brsapi_key, symbol_arg, price_field, l18, resolve_err>>
  /\ UNCHANGED outsideQuote

QuoteNext ==
  \/ \E symbol \in Symbols, field \in PriceFields : GetTsetmcQuoteCall(symbol, field)
  \/ \E outcome \in TableOutcomes : GetTsetmcQuoteResolve(outcome)
  \/ \E outcome \in QuoteOutcomes : GetTsetmcQuoteFetch(outcome)

\* No quote tool is in use.
QuoteIdle ==
  /\ brsapi_key = FALSE
  /\ symbol_arg = ""
  /\ price_field = "pc"
  /\ qpc = "idle"
  /\ l18 = None
  /\ resolve_err = None
  /\ requests_log = <<>>
  /\ quote_ret = NoQuoteCall

(***************************************************************************)
(* Specifications: one per component.                                      *)
(***************************************************************************)
InitChunk ==
  /\ ChunkInit
  /\ IndexIdle
  /\ BuildIdle
  /\ SplitIdle
  /\ ThermoIdle
  /\ AgentIdle
  /\ ToolIdle
  /\ QuoteIdle

InitSearch ==
  /\ SearchInit
  /\ ChunkIdle
  /\ BuildIdle
  /\ SplitIdle
  /\ ThermoIdle
  /\ AgentIdle
  /\ ToolIdle
  /\ QuoteIdle

InitPersist ==
  /\ PersistInit
  /\ ChunkIdle
  /\ BuildIdle
  /\ SplitIdle
  /\ ThermoIdle
  /\ AgentIdle
  /\ ToolIdle
  /\ QuoteIdle

InitBuild ==
  /\ BuildInit
  /\ SplitIdle
  /\ ThermoIdle
  /\ AgentIdle
  /\ ToolIdle
  /\ QuoteIdle

InitSplit ==
  /\ SplitInit
  /\ ChunkIdle
  /\ IndexIdle
  /\ BuildIdle
  /\ ThermoIdle
  /\ AgentIdle
  /\ ToolIdle
  /\ QuoteIdle

InitThermo ==
  /\ ThermoInit
  /\ ChunkIdle
  /\ IndexIdle
  /\ BuildIdle
  /\ SplitIdle
  /\ AgentIdle
  /\ ToolIdle
  /\ QuoteIdle

InitAgent ==
  /\ AgentInit
  /\ ChunkIdle
  /\ IndexIdle
  /\ BuildIdle
  /\ SplitIdle
  /\ ThermoIdle
  /\ ToolIdle
  /\ QuoteIdle

InitTool ==
  /\ ToolInit
  /\ ChunkIdle
  /\ IndexIdle
  /\ BuildIdle
  /\ SplitIdle
  /\ ThermoIdle
  /\ AgentIdle
  /\ QuoteIdle

InitQuote ==
  /\ QuoteInit
  /\ ChunkIdle
  /\ IndexIdle
  /\ BuildIdle
  /\ SplitIdle
  /\ ThermoIdle
  /\ AgentIdle
  /\ ToolIdle

SpecChunk == InitChunk /\ [][ChunkNext]_vars

SpecSearch == InitSearch /\ [][SearchNext]_vars

SpecPersist == InitPersist /\ [][PersistNext]_vars

SpecBuild == InitBuild /\ [][BuildNext]_vars

SpecSplit == InitSplit /\ [][SplitNext]_vars

SpecThermo == InitThermo /\ [][ThermoNext]_vars

SpecAgent == InitAgent /\ [][AgentNext]_vars

SpecTool == InitTool /\ [][ToolNext]_vars

SpecQuote == InitQuote /\ [][QuoteNext]_vars

(***************************************************************************)
(* Properties of make_chunks.                                              *)
(***************************************************************************)
Done == pc = "done"

Rejected == pc \notin {"start", "loop", "done"}

InputWords == Flatten(sentences)

\* The number of leading words of chunk `cur` that repeat the end of chunk
\* `prev`: the longest prefix of cur that is a suffix of prev.  Input words are
\* pairwise distinct, so these are exactly the words seeded from prev.
OverlapLen(prev, cur) ==
  LET ns == {n \in 0..Min(Len(prev), Len(cur)) :
               SubSeq(cur, 1, n) = SubSeq(prev, Len(prev) - n + 1, Len(prev))}
  IN CHOOSE n \in ns : \A m \in ns : m <= n

Copied(i) == IF i = 1 THEN 0 ELSE OverlapLen(chunks[i - 1], chunks[i])

Fresh(i) == SubSeq(chunks[i], Copied(i) + 1, Len(chunks[i]))

FreshWords == Flatten([i \in 1..Len(chunks) |-> Fresh(i)])

\* Chunk i is a piece of one sentence that is longer than chunk_size.
HardSplitChunk(i) ==
  /\ chunks[i] # <<>>
  /\ \E k \in 1..Len(sentences) :
       /\ Words(sentences[k]) > chunk_size
       /\ \A j \in 1..Len(chunks[i]) :
            \E m \in 1..Len(sentences[k]) : chunks[i][j] = sentences[k][m]

NoLongSentence == \A k \in 1..Len(sentences) : Words(sentences[k]) <= chunk_size

\* C1 as stated: every returned chunk has at most chunk_size words, chunks cut
\* out of an over-long sentence excepted.
C1_Original ==
  Done => \A i \in 1..Len(chunks) :
            Len(chunks[i]) <= chunk_size \/ HardSplitChunk(i)

\* C1 as amended: every returned chunk has at most chunk_size words that are
\* not copied from the end of the previous chunk, hence at most
\* chunk_size + overlap words, and at most chunk_size words when overlap = 0.
C1_ChunkWordBound ==
  Done => \A i \in 1..Len(chunks) :
            /\ Len(chunks[i]) - Copied(i) <= chunk_size
            /\ Copied(i) <= overlap
            /\ Len(chunks[i]) <= chunk_size + overlap

C1_Witness ==
  /\ Done
  /\ \E i \in 1..Len(chunks) : Len(chunks[i]) > chunk_size /\ Copied(i) > 0
  /\ \E j \in 1..Len(chunks) : HardSplitChunk(j)

\* C2 as stated: a call with overlap >= chunk_size is rejected with an error
\* and produces no chunk.
C2_Original ==
  (pc # "start" /\ overlap >= chunk_size) => (Rejected /\ chunks = <<>>)

\* C2 as amended: make_chunks rejects exactly chunk_size <= 0 and overlap < 0;
\* a call with chunk_size > 0 and overlap >= chunk_size is accepted and
\* returns chunks (at least one when the input has a word).
C2_OnlyTwoChecks ==
  /\ pc # "start" => (Rejected <=> (chunk_size <= 0 \/ overlap < 0))
  /\ Rejected => chunks = <<>>
  /\ (Done /\ overlap >= chunk_size /\ InputWords # <<>>) => chunks # <<>>

C2_Witness ==
  Done /\ chunk_size > 0 /\ overlap >= chunk_size /\ Len(chunks) >= 2

\* C3: the returned chunks, each without the leading words copied from the end
\* of the previous chunk, concatenate to exactly the input word sequence.
C3_FreshWordsAreInput == Done => FreshWords = InputWords

C3_Witness ==
  /\ Done
  /\ \E i \in 1..Len(chunks) : Copied(i) > 0
  /\ \E j \in 1..Len(chunks) : HardSplitChunk(j) /\ Len(chunks[j]) < chunk_size

\* C4: with overlap = 0 and no sentence longer than chunk_size the words of
\* the chunks, concatenated, are exactly the words of the input.
C4_ExactPartition ==
  (Done /\ overlap = 0 /\ NoLongSentence) => Flatten(chunks) = InputWords

C4_Witness ==
  /\ Done /\ overlap = 0 /\ NoLongSentence
  /\ Len(chunks) >= 3
  /\ \E i \in 1..Len(chunks) : Len(chunks[i]) >= 2

(***************************************************************************)
(* Properties of search.                                                   *)
(***************************************************************************)
Searched == ret.op = "search" /\ ret.kind = "ok"

NChunks == Len(index.chunks)

\* The similarity of every chunk of the index to the query of the last call.
SimsOfLastQuery ==
  CosineSim(QueryToVector(index, ret.q, env.sbert_installed).vec,
            index.vectors).sims

HitPositions == {ret.hits[r].idx + 1 : r \in 1..Len(ret.hits)}

\* C5: a search of an index of N >= 1 chunks returns exactly
\* min(max(k, 1), N) hits, for every integer k.
C5_HitCount ==
  Searched =>
    Len(ret.hits) = (IF ret.k < 1 THEN 1
                     ELSE IF ret.k > NChunks THEN NChunks ELSE ret.k)

C5_Witness ==
  Searched /\ ret.k < 1 /\ NChunks >= 3 /\ Len(ret.hits) = 1

\* C6 as stated: among the returned hits, chunks of equal score come in
\* ascending chunk position.
C6_TiesAscending ==
  Searched =>
    \A r1, r2 \in 1..Len(ret.hits) :
      (r1 < r2 /\ ret.hits[r1].score = ret.hits[r2].score)
        => ret.hits[r1].idx < ret.hits[r2].idx

\* C7: the scores of the returned hits never increase along the sequence, each
\* hit carries the similarity and the text of its chunk, and no chunk left
\* out has a strictly higher similarity than a returned one.
C7_SortedTopK ==
  Searched =>
    /\ \A r1, r2 \in 1..Len(ret.hits) :
         r1 < r2 => ret.hits[r1].score >= ret.hits[r2].score
    /\ \A r \in 1..Len(ret.hits) :
         /\ ret.hits[r].idx + 1 \in 1..NChunks
         /\ ret.hits[r].score = SimsOfLastQuery[ret.hits[r].idx + 1]
         /\ ret.hits[r].chunk = index.chunks[ret.hits[r].idx + 1]
    /\ \A c \in (1..NChunks) \ HitPositions :
         \A r \in 1..Len(ret.hits) : SimsOfLastQuery[c] <= ret.hits[r].score

C7_Witness ==
  /\ Searched
  /\ Len(ret.hits) = 2
  /\ ret.hits[1].score > ret.hits[2].score
  /\ \E c \in (1..NChunks) \ HitPositions :
       SimsOfLastQuery[c] < ret.hits[2].score

(***************************************************************************)
(* Properties of save_index and load_index.                                *)
(***************************************************************************)
Loaded == ret.op = "load" /\ ret.kind = "ok"

KnownBackends == {"tfidf", "sbert"}

OnDisk == Undump(disk.objs)

C10_LoadReturnsLastSaved ==
  Loaded =>
    /\ saved # None
    /\ index.chunks = saved[1].chunks
    /\ index.vectors = saved[1].vectors
    /\ index.meta = saved[1].meta
    /\ index.tfidf_vectorizer = saved[1].tfidf_vectorizer

C10_Witness ==
  /\ Loaded
  /\ overwrote
  /\ Len(index.chunks) >= 2
  /\ index.chunks[1] # index.chunks[2]
  /\ index.tfidf_vectorizer # None

(***************************************************************************)
(* Properties of build_index.                                              *)
(***************************************************************************)
Returned == bpc = "done" /\ built # None

\* The row an embedder of the given backend makes of one text, with the
\* fitted state the index keeps.
RowOf(idx, chunk) ==
  IF idx.meta.emb = "tfidf"
  THEN TfidfTransform(idx.tfidf_vectorizer[1], <<chunk>>)[1]
  ELSE SbertTransform(<<chunk>>)[1]

\* C11: every index that build_index returns has as many vector rows as
\* chunks, row i being the embedding of chunk i, and its metadata holds the
\* backend that was used (the one the name selects, whose fitted state the
\* index keeps) with the chunk_size, overlap and language that were passed.
C11_IndexShape ==
  Returned =>
    LET idx == built[1]
    IN /\ idx.chunks = chunks
       /\ Len(idx.vectors) = Len(idx.chunks)
       /\ idx.meta.emb \in {"tfidf", "sbert"}
       /\ idx.meta.emb = SelectEmbedder(emb_name_arg)
       /\ (idx.meta.emb = "tfidf") = (idx.tfidf_vectorizer # None)
       /\ \A i \in 1..Len(idx.chunks) : idx.vectors[i] = RowOf(idx, idx.chunks[i])
       /\ idx.meta.chunk_size = chunk_size
       /\ idx.meta.overlap = overlap
       /\ idx.meta.lang = lang_arg

C11_Witness ==
  /\ Returned
  /\ emb_name_arg = "TFIDF"
  /\ lang_arg = "fa"
  /\ Len(built[1].chunks) >= 2
  /\ built[1].vectors[1] # built[1].vectors[2]

(***************************************************************************)
(* Properties of search on an index whose vectors are not the backend's.   *)
(***************************************************************************)
SearchCalled == ret.op = "search"

QueryVector == QueryToVector(index, ret.q, env.sbert_installed)

\* C12: a search whose reconstructed query vector has another number of
\* columns than the stored vectors fails with the dimension error and
\* returns no hit; a search that returns hits had equal dimensions.
C12_DimensionMismatch ==
  (SearchCalled /\ QueryVector.ok) =>
    IF \E i \in 1..NChunks : Len(index.vectors[i]) # Len(QueryVector.vec[1])
    THEN /\ ret.kind = "error"
         /\ ret.err = "ValueError: Incompatible dimension"
         /\ ret.hits = <<>>
    ELSE ret.kind = "ok"

C12_Witness ==
  /\ SearchCalled
  /\ QueryVector.ok
  /\ Len(QueryVector.vec[1]) # Len(index.vectors[1])
  /\ ret.kind = "error"

(***************************************************************************)
(* Properties of the argument checks, seen from build_index.               *)
(***************************************************************************)
BadSizes == chunk_size <= 0 \/ overlap < 0

\* C13: with chunk_size <= 0 or overlap < 0, whatever the sentences (none
\* included), make_chunks raises its ValueError at the call, before it has
\* processed a sentence or made a chunk; chunk_text and build_index pass the
\* same error on and return neither chunks nor an index.
C13_RejectedAtCall ==
  BadSizes =>
    /\ pc \notin {"loop", "done"}
    /\ pos = 1 /\ chunks = <<>> /\ window = <<>> /\ count = 0
    /\ Raised(pc) =>
         pc = (IF chunk_size <= 0 THEN "ValueError: chunk_size must be > 0"
               ELSE "ValueError: overlap must be >= 0")
    /\ bpc = "chunk_text" => pc = "start" \/ Raised(pc)
    /\ bpc = "done" =>
         /\ Raised(pc)
         /\ ret = Outcome("build", <<>>, 0, "error", <<>>, pc)
         /\ built = None

C13_Witness ==
  /\ bpc = "done"
  /\ text_arg = <<>>
  /\ chunk_size > 0
  /\ overlap < 0
  /\ ret.kind = "error"

(***************************************************************************)
(* Properties of split_sentences.                                          *)
(***************************************************************************)
SplitDone == spc = "done"

Terminators == {".", "!", "?"}

\* The positions of the trimmed text where a sentence closes: a terminator
\* that whitespace or the end of the text follows.
Closes(t) ==
  {i \in 1..Len(t) : t[i] \in Terminators /\ (i = Len(t) \/ IsSpace(t[i + 1]))}

\* The trimmed text cut after every closing position (in ascending order,
\* from position `from` on), each piece trimmed, an empty last piece dropped.
RECURSIVE CutAt(_, _, _)
CutAt(t, from, cuts) ==
  IF cuts = <<>>
  THEN (IF Strip(SubSeq(t, from, Len(t))) # <<>>
        THEN <<Strip(SubSeq(t, from, Len(t)))>> ELSE <<>>)
  ELSE <<Strip(SubSeq(t, from, Head(cuts)))>>
       \o CutAt(t, Head(cuts) + 1, Tail(cuts))

\* C14: for a language tag that does not start with "fa", split_sentences
\* returns the trimmed text cut after every '.', '!' or '?' that whitespace or
\* the end of the text follows: the sentences in text order, each non-empty,
\* trimmed and, but for an unterminated last one, ending in its terminator;
\* a text of n terminated sentences gives n sentences.
C14_DefaultSplit ==
  (SplitDone /\ s_lang \in {"en", ""}) =>
    LET t == Strip(s_text)
        out == split_ret[1]
        n == Cardinality(Closes(t))
        tailed == t # <<>> /\ Len(t) \notin Closes(t)
    IN /\ out = CutAt(t, 1, SortedSeq(Closes(t)))
       /\ \A i \in 1..Len(out) : out[i] # <<>> /\ Strip(out[i]) = out[i]
       /\ Len(out) = n + (IF tailed THEN 1 ELSE 0)
       /\ \A i \in 1..Len(out) :
            (i <= n) => out[i][Len(out[i])] \in Terminators
       /\ tailed => \A i \in DOMAIN out[Len(out)] :
                      ~(/\ out[Len(out)][i] \in Terminators
                        /\ (i = Len(out[Len(out)]) \/ IsSpace(out[Len(out)][i + 1])))

C14_Witness ==
  /\ SplitDone
  /\ s_lang = "en"
  /\ Len(split_ret[1]) = 3
  /\ \E i \in DOMAIN s_text : s_text[i] = "!"
  /\ \E i \in DOMAIN s_text : s_text[i] = "\n"
  /\ Len(Strip(s_text)) \notin Closes(Strip(s_text))

\* str.split(): the maximal runs of non-whitespace characters.
RECURSIVE WordsOfText(_)
WordsOfText(t) ==
  LET u == LStrip(t)
      e == RunEnd(u, 1, Chars \ Spaces)
  IN IF u = <<>> THEN <<>>
     ELSE <<SubSeq(u, 1, e)>> \o WordsOfText(SubSeq(u, e + 1, Len(u)))

WordsOfSentences(out) == Flatten([i \in 1..Len(out) |-> WordsOfText(out[i])])

\* C15: for a language tag that starts with "fa", hazm missing,
\* split_sentences returns without error sentences whose words are exactly
\* the words of the text, each sentence but an unterminated last one ending
\* in the character that closed it.
C15_FallbackKeepsWords ==
  (SplitDone /\ s_lang \in {"fa", "FA-IR"}) =>
    WordsOfSentences(split_ret[1]) = WordsOfText(s_text)

(***************************************************************************)
(* The number of chunks make_chunks returns.                               *)
(***************************************************************************)
TotalWords == Len(InputWords)

\* C16: for valid sizes and W words in all, make_chunks returns at least
\* ceil(W / chunk_size) chunks, every chunk carrying at most chunk_size words
\* that are not copied from the chunk before it; more than chunk_size words
\* give at least two chunks.
C16_ChunkCountLowerBound ==
  Done =>
    /\ \A i \in 1..Len(chunks) : Len(Fresh(i)) <= chunk_size
    /\ Len(chunks) * chunk_size >= TotalWords
    /\ TotalWords > chunk_size => Len(chunks) >= 2

C16_Witness ==
  /\ Done
  /\ overlap > 0
  /\ TotalWords > chunk_size
  /\ (Len(chunks) - 1) * chunk_size < TotalWords
  /\ \E i \in 1..Len(chunks) : Copied(i) > 0

(***************************************************************************)
(* Properties of the thermostat.  Of the last call of decide: T its        *)
(* temperature, the doubled edges of the heating and the cooling band.     *)
(***************************************************************************)
Decided == decided # None /\ decided[1] \in Actions

T2 == 2 * percept.temperature

HeatLow2 == 2 * (cfg.setpoint_h - (IF percept.occupied THEN 0 ELSE cfg.eco_offset))
            - cfg.deadband

HeatHigh2 == 2 * (cfg.setpoint_h - (IF percept.occupied THEN 0 ELSE cfg.eco_offset))
             + cfg.deadband

CoolLow2 == 2 * (cfg.setpoint_c + (IF percept.occupied THEN 0 ELSE cfg.eco_offset))
            - cfg.deadband

CoolHigh2 == 2 * (cfg.setpoint_c + (IF percept.occupied THEN 0 ELSE cfg.eco_offset))
             + cfg.deadband

\* C17: in mode heating decide returns HEAT_ON below the band, OFF above it
\* and, inside the closed band, HEAT_ON exactly when the previous decision
\* was HEAT_ON, never COOL_ON; in mode cooling COOL_ON above the band, OFF
\* below it, inside COOL_ON exactly when the previous decision was COOL_ON,
\* never HEAT_ON.
C17_HeatingAndCooling ==
  /\ (Decided /\ cfg.mode \in {"heating", "Heating"}) =>
       /\ decided[1] # "COOL_ON"
       /\ T2 < HeatLow2 => decided[1] = "HEAT_ON"
       /\ T2 > HeatHigh2 => decided[1] = "OFF"
       /\ (HeatLow2 <= T2 /\ T2 <= HeatHigh2) =>
            ((decided[1] = "HEAT_ON") = (prev_action = "HEAT_ON"))
  /\ (Decided /\ cfg.mode = "cooling") =>
       /\ decided[1] # "HEAT_ON"
       /\ T2 > CoolHigh2 => decided[1] = "COOL_ON"
       /\ T2 < CoolLow2 => decided[1] = "OFF"
       /\ (CoolLow2 <= T2 /\ T2 <= CoolHigh2) =>
            ((decided[1] = "COOL_ON") = (prev_action = "COOL_ON"))
  /\ cfg.mode \in {"heating", "Heating", "cooling"} => (decided # None => Decided)

C17_Witness ==
  /\ Decided
  /\ cfg.mode = "heating"
  /\ ~percept.occupied
  /\ cfg.eco_offset > 0
  /\ T2 = HeatLow2
  /\ prev_action = "HEAT_ON"
  /\ decided[1] = "HEAT_ON"

\* C18: in mode auto decide returns HEAT_ON when only the heating threshold
\* is violated, COOL_ON when only the cooling threshold is, the previous
\* action when both are, and when neither is: HEAT_ON exactly when the
\* previous action was HEAT_ON and T <= sp_h + half, COOL_ON exactly when it
\* was COOL_ON and T >= sp_c - half, OFF otherwise; the stored last action is
\* the action returned.
C18_AutoMode ==
  (Decided /\ cfg.mode = "auto") =>
    LET need_heat == T2 < HeatLow2
        need_cool == T2 > CoolHigh2
    IN /\ last_action = decided[1]
       /\ (need_heat /\ ~need_cool) => decided[1] = "HEAT_ON"
       /\ (need_cool /\ ~need_heat) => decided[1] = "COOL_ON"
       /\ (need_heat /\ need_cool) => decided[1] = prev_action
       /\ (~need_heat /\ ~need_cool) =>
            /\ (decided[1] = "HEAT_ON") =
                 (prev_action = "HEAT_ON" /\ T2 <= HeatHigh2)
            /\ (decided[1] = "COOL_ON") =
                 (prev_action = "COOL_ON" /\ T2 >= CoolLow2)

C18_Witness ==
  /\ Decided
  /\ cfg.mode = "auto"
  /\ T2 < HeatLow2
  /\ T2 > CoolHigh2
  /\ prev_action = "COOL_ON"
  /\ last_action = "COOL_ON"

(***************************************************************************)
(* Properties of ReActAgent.run.  outs[i] is the LLM output of step i.     *)
(***************************************************************************)
\* A string "final" and no usable action.
FinalOnly(o) == o.json /\ o.final.kind = "string" /\ ~ActionTruthy(o.action)

\* A usable action and no final to choose from.
ActionStep(o) == o.json /\ ActionTruthy(o.action) /\ ~FinalTruthy(o.final)

FinalSteps == {i \in DOMAIN outs : FinalOnly(outs[i])}

Ended == run_ret.kind \in {"return", "raise"}

\* C19: run calls the LLM at most max_steps times (never for max_steps <= 0)
\* and, when it has ended without a step that gave an accepted final answer,
\* it has returned the step-limit message.
C19_StepLimit ==
  /\ Len(outs) <= Max(max_steps, 0)
  /\ (Ended /\ FinalSteps = {}) =>
       run_ret = [kind |-> "return", value |-> LimitMessage]

RECURSIVE ActionsIn(_)
ActionsIn(os) ==
  IF os = <<>> THEN <<>>
  ELSE (IF ActionStep(Head(os)) THEN <<Head(os).action>> ELSE <<>>)
       \o ActionsIn(Tail(os))

\* C20: once a step's output holds a string final and no action, run has
\* returned that string, at the first such step, with no LLM call and no tool
\* call after it; the tool actions of the steps before it were each executed
\* once, in order; and the observation of every executed tool action is the
\* last entry of the scratchpad that the next LLM call is given.  run returns
\* nothing else but the step-limit message.
C20_FirstFinalStops ==
  /\ FinalSteps # {} =>
       LET i == CHOOSE n \in FinalSteps : \A m \in FinalSteps : n <= m
       IN /\ run_ret = [kind |-> "return", value |-> outs[i].final.value]
          /\ Len(outs) = i
          /\ tool_calls = ActionsIn(SubSeq(outs, 1, i - 1))
  /\ (run_ret.kind = "return" /\ FinalSteps = {}) => run_ret.value = LimitMessage
  /\ \A j \in DOMAIN outs :
       (ActionStep(outs[j]) /\ j < Len(outs)) =>
         /\ Len(scratch_seen[j + 1]) = Len(scratch_seen[j]) + 1
         /\ scratch_seen[j + 1][Len(scratch_seen[j + 1])] =
              Entry("thought", Some(outs[j].action),
                    Some(CallTool(outs[j].action.tool, outs[j].action.input).value))

C20_Witness ==
  /\ run_ret = [kind |-> "return", value |-> "A"]
  /\ Len(outs) = 3
  /\ Len(tool_calls) = 2
  /\ tool_calls[1] # tool_calls[2]

(***************************************************************************)
(* Properties of call_tool and of the notes tools.                         *)
(***************************************************************************)
ToolCalled == tool_ret.kind # "none"

\* C21: call_tool never raises, whatever the name and the payload; what it
\* reports as an unknown tool or a missing field it reports without running
\* a tool function.
C21_NeverRaises ==
  ToolCalled =>
    /\ tool_ret.kind # "raise"
    /\ tool_ret.kind = "tool_error" => ~tool_ret.invoked

\* C22: the memory holds under every key the text of the last notes_write to
\* it and nothing under a key never written (so no call changes what another
\* key holds and a read changes nothing), and notes_read returns that text,
\* or the empty string for a key never written.
C22_NotesRoundTrip ==
  /\ ltm = written
  /\ (tool_ret.name = "notes_read" /\ tool_ret.kind = "ok") =>
       tool_ret.value = (IF written[tool_ret.payload.key] = None THEN ""
                         ELSE written[tool_ret.payload.key][1])

C22_Witness ==
  /\ tool_ret.name = "notes_read"
  /\ tool_ret.kind = "ok"
  /\ tool_ret.payload.key = "door"
  /\ tool_ret.value = "b"
  /\ written["wifi"] = Some("a")

(***************************************************************************)
(* Properties of the TSETMC quote tool.                                    *)
(***************************************************************************)
QuoteEnded == qpc = "done"

QuoteRequested == \E i \in DOMAIN requests_log : requests_log[i] = "Symbol.php"

\* C23: _get_tsetmc_quote lets no exception escape: whatever the symbol and
\* the outcomes of the requests it returns JSON of type QUOTE, TOOL_ERROR or
\* DATA_ERROR, and without BRSAPI_KEY it is TOOL_ERROR with no request sent.
C23_NoExceptionEscapes ==
  QuoteEnded =>
    /\ quote_ret.kind = "return"
    /\ quote_ret.type \in {"QUOTE", "TOOL_ERROR", "DATA_ERROR"}
    /\ ~brsapi_key => (quote_ret.type = "TOOL_ERROR" /\ requests_log = <<>>)

\* C30: the quote request is sent only with an l18 name that is there and not
\* empty, and no QUOTE is returned with a null symbol_l18: where resolution
\* gave no name the tool returns DATA_ERROR without the quote request.
C30_QuoteOnlyAfterResolved ==
  /\ QuoteRequested => Truthy(l18)
  /\ (QuoteEnded /\ quote_ret.type = "QUOTE") => Truthy(quote_ret.symbol_l18)
  /\ (QuoteEnded /\ quote_ret.kind = "return" /\ brsapi_key /\ ~Truthy(l18)) =>
       (quote_ret.type = "DATA_ERROR" /\ ~QuoteRequested)

(***************************************************************************)
(* More properties of make_chunks.                                         *)
(***************************************************************************)
\* The loop stands before sentence pos.
AtSentence == pc = "loop" /\ pos <= Len(sentences)

\* The groups of n consecutive words of a sentence, the last one holding the
\* rest.
Groups(words, n) ==
  [k \in 1..((Len(words) + n - 1) \div n) |->
     SubSeq(words, (k - 1) * n + 1, Min(k * n, Len(words)))]

\* The chunks with the pending buffer flushed.
Flushed == IF window # <<>> THEN Append(chunks, Join(window)) ELSE chunks

\* C24: the step over a sentence of more than chunk_size words appends the
\* pending buffer (if there is one) and then the groups of chunk_size words of
\* the sentence in order, none empty, and leaves the buffer empty; the step
\* over the sentence after it opens its chunk with that sentence alone.
C24_HardSplit ==
  [][ (AtSentence /\ pos' = pos + 1) =>
        /\ Words(sentences[pos]) > chunk_size =>
             /\ chunks' = Flushed \o Groups(sentences[pos], chunk_size)
             /\ \A k \in DOMAIN Groups(sentences[pos], chunk_size) :
                  Groups(sentences[pos], chunk_size)[k] # <<>>
             /\ window' = <<>>
             /\ count' = 0
        /\ (pos > 1 /\ Words(sentences[pos - 1]) > chunk_size
                    /\ Words(sentences[pos]) <= chunk_size) =>
             /\ chunks' = chunks
             /\ window' = <<sentences[pos]>>
             /\ count' = Words(sentences[pos]) ]_vars

C24_Witness ==
  /\ pc = "loop"
  /\ pos > 3
  /\ overlap > 0
  /\ Words(sentences[pos - 1]) <= chunk_size
  /\ Words(sentences[pos - 2]) > chunk_size
  /\ Words(sentences[pos - 2]) % chunk_size # 0
  /\ Words(sentences[pos - 3]) > 0
  /\ window = <<sentences[pos - 1]>>
  /\ Len(chunks) >= 3

(***************************************************************************)
(* Hysteresis of the thermostat.                                           *)
(***************************************************************************)
InHeatBand == HeatLow2 <= T2 /\ T2 <= HeatHigh2

InCoolBand == CoolLow2 <= T2 /\ T2 <= CoolHigh2

\* C25: in mode heating (cooling), a step whose temperature lies in the closed
\* band around the setpoint of that step decides what the step before it
\* decided (OFF before the first step), so the decision does not change while
\* the temperature stays in the band; it goes from OFF to ON only strictly
\* outside the band on the demand side and from ON to OFF only strictly
\* outside on the other side.
C25_Hysteresis ==
  /\ (Decided /\ cfg.mode \in {"heating", "Heating"}) =>
       /\ InHeatBand => decided[1] = prev_action
       /\ (prev_action = "OFF" /\ decided[1] = "HEAT_ON") => T2 < HeatLow2
       /\ (prev_action = "HEAT_ON" /\ decided[1] = "OFF") => T2 > HeatHigh2
       /\ {prev_action, decided[1]} \subseteq {"OFF", "HEAT_ON"}
  /\ (Decided /\ cfg.mode = "cooling") =>
       /\ InCoolBand => decided[1] = prev_action
       /\ (prev_action = "OFF" /\ decided[1] = "COOL_ON") => T2 > CoolHigh2
       /\ (prev_action = "COOL_ON" /\ decided[1] = "OFF") => T2 < CoolLow2
       /\ {prev_action, decided[1]} \subseteq {"OFF", "COOL_ON"}

C25_Witness ==
  /\ Decided
  /\ cfg.mode = "cooling"
  /\ cfg.deadband > 0
  /\ percept.occupied
  /\ T2 = CoolLow2
  /\ prev_action = "COOL_ON"
  /\ decided[1] = "COOL_ON"

(***************************************************************************)
(* Malformed step outputs of the agent.                                    *)
(***************************************************************************)
\* No JSON object, an action and a final together, neither an action nor a
\* string final, or an action that is not an object.
Malformed(o) ==
  \/ ~o.json
  \/ ActionTruthy(o.action) /\ FinalTruthy(o.final)
  \/ ~ActionTruthy(o.action) /\ o.final.kind # "string"
  \/ o.action.kind = "string"

\* C26: a step whose output is malformed does not end run, executes no tool
\* and adds exactly one entry, with no action in it, to the scratchpad.
C26_MalformedRecoverable ==
  [][ \A o \in LLMOutputs :
        (Running /\ outs' = Append(outs, o) /\ Malformed(o)) =>
          /\ run_ret' = run_ret
          /\ tool_calls' = tool_calls
          /\ Len(short_mem') = Len(short_mem) + 1
          /\ SubSeq(short_mem', 1, Len(short_mem)) = short_mem
          /\ short_mem'[Len(short_mem')].action = None ]_vars

(***************************************************************************)
(* search leaves the index alone.                                          *)
(***************************************************************************)
\* C27: a search call, successful or failing, changes nothing of the index
\* (metadata, chunks, vectors, fitted vectorizer) nor of the index file, and a
\* search that follows a search with the same query and k gives the same
\* outcome with the same hits in the same order.
C27_SearchReadOnly ==
  [][ ret'.op = "search" =>
        /\ index' = index
        /\ disk' = disk
        /\ (ret.op = "search" /\ ret'.q = ret.q /\ ret'.k = ret.k) =>
             (ret'.kind = ret.kind /\ ret'.hits = ret.hits /\ ret'.err = ret.err) ]_vars

C27_Witness ==
  /\ Searched
  /\ index.meta.emb = "tfidf"
  /\ NChunks >= 2
  /\ ret.k >= 2
  /\ Len(ret.hits) >= 2
  /\ ret.hits[1].score = ret.hits[2].score

(***************************************************************************)
(* Progress of make_chunks.                                                *)
(***************************************************************************)
\* The number of word groups that the sentences longer than chunk_size are
\* cut into, over the first n sentences.
RECURSIVE HardGroups(_)
HardGroups(n) ==
  IF n = 0 THEN 0
  ELSE HardGroups(n - 1)
       + (IF Words(sentences[n]) > chunk_size
          THEN Len(Groups(sentences[n], chunk_size)) ELSE 0)

\* Chunk i has words, all of them copied from the end of the chunk before it.
OnlyOverlap(i) == chunks[i] # <<>> /\ Copied(i) = Len(chunks[i])

\* C28: for chunk_size > 0 and overlap >= 0 (overlap >= chunk_size included)
\* the loop takes each sentence once and ends, no returned chunk is made only
\* of words copied from the chunk before it, and there are at most as many
\* chunks as sentences plus hard-split word groups.
C28_TerminatesWithProgress ==
  /\ pc \in {"loop", "done"} => pos <= Len(sentences) + 1
  /\ Done =>
       /\ pos = Len(sentences) + 1
       /\ FreshWords = InputWords
       /\ \A i \in 1..Len(chunks) : ~OnlyOverlap(i)
       /\ Len(chunks) <= Len(sentences) + HardGroups(Len(sentences))

(***************************************************************************)
(* The size of the chunks of make_chunks.                                  *)
(***************************************************************************)
\* C29: for chunk_size > 0 and overlap >= 0 every returned chunk has at most
\* chunk_size + overlap words, and one with more than chunk_size words opens
\* with words seeded from the chunk before it and holds exactly one sentence
\* after them; while the loop runs, a buffer of more than chunk_size words is
\* the seed and the one sentence last read.
C29_ChunkSizeBound ==
  /\ (pc = "loop" /\ count > chunk_size) =>
       /\ Len(window) = 2
       /\ pos > 1
       /\ window[2] = sentences[pos - 1]
       /\ chunks # <<>>
       /\ window[1] = PyLast(chunks[Len(chunks)], overlap)
       /\ count = Len(window[1]) + Len(window[2])
       /\ count <= chunk_size + overlap
  /\ Done =>
       \A i \in 1..Len(chunks) :
         /\ Len(chunks[i]) <= chunk_size + overlap
         /\ Len(chunks[i]) > chunk_size =>
              /\ Copied(i) > 0
              /\ Copied(i) <= overlap
              /\ \E k \in 1..Len(sentences) :
                   /\ Words(sentences[k]) <= chunk_size
                   /\ Fresh(i) = sentences[k]

C29_Witness ==
  /\ Done
  /\ overlap >= chunk_size
  /\ \E i \in 1..Len(chunks) :
       /\ Len(chunks[i]) = chunk_size + overlap
       /\ Copied(i) = overlap
       /\ Len(Fresh(i)) = chunk_size
  /\ \E k \in 1..Len(sentences) : Words(sentences[k]) = 0
====
